---- MODULE Spec2Model ----
(***************************************************************************)
(* tb-updater: the Thunderbird updater binary (src/src/main.rs).           *)
(*                                                                         *)
(* One run of main() is a sequence of steps over a file system that        *)
(* persists between runs: ensure the launcher, load the ConfigRecord,      *)
(* discover the latest release, compare, download and unpack, save.        *)
(* Network answers and file-system results are chosen by the environment.  *)
(* Texts are sequences of one-character strings.                           *)
(***************************************************************************)
EXTENDS Integers, Sequences, FiniteSets, TLC

\* ---------------------------------------------------------------- bounds
MaxRuns == 3        \* runs of the binary in one behaviour
MaxAnchors == 2     \* anchors selected from one index page
MaxChunks == 2      \* body chunks of one archive response
MaxLen == 5         \* length of the enumerated inputs of Version::from_str
MaxList == 3        \* anchors of a page given to the discoverer on its own

\* ------------------------------------------------------- program constants
I32_MAX == 2147483647
I32_MIN == (-2147483647) - 1
EXIT_FAILURE == 255   \* process::exit(-1) as the parent sees it
EXIT_PANIC == 101     \* a panicking main thread
EXIT_OK == 0

\* ------------------------------------------------------------------ texts
Digits == {"0", "1", "2", "3", "4", "5", "6", "7", "8", "9"}

DigitVal(c) ==
  CASE c = "0" -> 0 [] c = "1" -> 1 [] c = "2" -> 2 [] c = "3" -> 3
    [] c = "4" -> 4 [] c = "5" -> 5 [] c = "6" -> 6 [] c = "7" -> 7
    [] c = "8" -> 8 [] c = "9" -> 9

\* str::split('.'): the fields between the separators; "" gives one empty
\* field, "1..0" gives "1", "", "0".
RECURSIVE SplitFrom(_, _, _)
SplitFrom(s, i, cur) ==
  IF i > Len(s) THEN <<cur>>
  ELSE IF s[i] = "." THEN <<cur>> \o SplitFrom(s, i + 1, <<>>)
  ELSE SplitFrom(s, i + 1, Append(cur, s[i]))

Split(s) == SplitFrom(s, 1, <<>>)

ParseErr == [ok |-> FALSE]
ParseOk(n) == [ok |-> TRUE, val |-> n]

\* The digit loop of i32::from_str: checked multiply by ten, then checked
\* add (a positive number) or checked subtract (a negative one).
RECURSIVE AccumDigits(_, _, _, _)
AccumDigits(ds, i, acc, positive) ==
  IF i > Len(ds) THEN ParseOk(acc)
  ELSE IF ds[i] \notin Digits THEN ParseErr
  ELSE LET d == DigitVal(ds[i]) IN
    IF positive
    THEN IF acc > (I32_MAX - d) \div 10 THEN ParseErr
         ELSE AccumDigits(ds, i + 1, acc * 10 + d, positive)
    ELSE IF acc < (I32_MIN + d + 9) \div 10 THEN ParseErr
         ELSE AccumDigits(ds, i + 1, acc * 10 - d, positive)

\* <i32 as FromStr>::from_str: empty text and a lone sign are errors; one
\* leading '+' or '-' is accepted.
ParseI32(f) ==
  IF Len(f) = 0 THEN ParseErr
  ELSE IF Len(f) = 1 /\ f[1] \in {"+", "-"} THEN ParseErr
  ELSE IF f[1] = "+" THEN AccumDigits(Tail(f), 1, 0, TRUE)
  ELSE IF f[1] = "-" THEN AccumDigits(Tail(f), 1, 0, FALSE)
  ELSE AccumDigits(f, 1, 0, TRUE)

\* ---------------------------------------------------------------- Version
None == [some |-> FALSE]
Some(v) == [some |-> TRUE, val |-> v]

Version(ma, mi, pa) == [major |-> ma, minor |-> mi, patch |-> pa]

VersionDefault == Version(0, 0, 0)

\* Version::from_str
from_str(s) ==
  LET parts == Split(s) IN
  IF Len(parts) # 3 THEN None
  ELSE LET a == ParseI32(parts[1])
           b == ParseI32(parts[2])
           c == ParseI32(parts[3])
       IN IF a.ok /\ b.ok /\ c.ok THEN Some(Version(a.val, b.val, c.val))
          ELSE None

\* derive(PartialOrd, Ord): field by field, in declaration order
VersionLt(a, b) ==
  \/ a.major < b.major
  \/ a.major = b.major /\ a.minor < b.minor
  \/ a.major = b.major /\ a.minor = b.minor /\ a.patch < b.patch

VersionLe(a, b) == a = b \/ VersionLt(a, b)


\* ------------------------------------------------------------ environment
\* --dest-dir values (the default and another one)
Dests == {"~/Downloads", "/opt/tb"}

\* Texts of the anchors the selector a.inline-link finds on an index page
AnchorTexts ==
  { <<"1", ".", "0", ".", "0">>,
    <<"1", ".", "2", ".", "0">>,
    <<"j", "u", "n", "k">> }

RECURSIVE SeqsUpTo(_, _)
SeqsUpTo(S, n) ==
  IF n = 0 THEN {<<>>}
  ELSE LET shorter == SeqsUpTo(S, n - 1) IN
       shorter \cup {Append(q, x) : q \in {r \in shorter : Len(r) = n - 1}, x \in S}

\* What the GET of the release index can answer: a transport error, or a
\* response with a status and a body (the body's selected anchors).
IndexResponses ==
  [transport_ok : BOOLEAN, status : {200, 404}, anchors : SeqsUpTo(AnchorTexts, MaxAnchors)]

\* Body chunks of the archive response: a bzip2 stream head, its tar
\* payload, or bytes that are neither.
ChunkKinds == {"bz", "tar", "junk"}

\* What the GET of the archive can answer. stream_ok: every chunk() call
\* returns Ok; disk_ok: the unpacking meets no file-system error.
ArchiveResponses ==
  [send_ok : BOOLEAN, status : {200, 404}, chunks : SeqsUpTo(ChunkKinds, MaxChunks),
   stream_ok : BOOLEAN, disk_ok : BOOLEAN]

\* ------------------------------------------------------------ file system
\* A path is a base and a place under it. Base "~" is the literal
\* directory name "~" the constants of mod conf start with, which the
\* operating system looks up in the working directory; base "home" is the
\* value of $HOME.
SHARE_DIR == [base |-> "~", rel |-> "share"]
SHARE_APPLICATIONS_DIR == [base |-> "~", rel |-> "applications"]
DOT_DESKTOP_PATH == [base |-> "~", rel |-> "thunderbird.desktop"]

\* str::replace("~", &home)
ExpandHome(p) == [p EXCEPT !.base = "home"]

Bases == {"~", "home"}
DirNodes == [base : Bases, rel : {"share", "applications"}]
LauncherNodes == [base : Bases, rel : {"thunderbird.desktop"}]
NoFile == "NoFile"

ParentDir(p) ==
  IF p.rel = "thunderbird.desktop" THEN [p EXCEPT !.rel = "applications"]
  ELSE [p EXCEPT !.rel = "share"]

\* The ConfigRecord file at CONFIG_PATH
Absent == [kind |-> "absent"]
Corrupt == [kind |-> "corrupt"]
Stored(c) == [kind |-> "record", version |-> c.version, dest_dir |-> c.dest_dir]

VARIABLES
  tilde_is_home,  \* the working directory's entry "~" is the directory $HOME
  dirs,           \* the directories that exist
  files,          \* launcher files: node -> NoFile or the dest_dir written into it
  config_file,    \* contents of CONFIG_PATH
  pc,             \* position of main()
  runs,           \* runs started so far
  args_dest_dir,  \* args.dest_dir
  conf,           \* main's conf
  latest_version, \* main's latest_version
  exit_code,      \* exit status of the run, -1 while it runs
  out,            \* lines printed by the run
  obs,            \* what the run has done so far (history)
  launcher_writes,\* successful writes of the $HOME launcher, all runs (history)
  prev,           \* outcome of the previous run (history)
  first_dest,     \* dest_dir of the first record ever written, "" before (history)
  text,           \* input of Version::from_str
  parsed,         \* its result
  anchors,        \* texts selected from the page the discoverer is given
  found           \* result of get_latest_release_number on them

vars ==
  <<tilde_is_home, dirs, files, config_file, pc, runs, args_dest_dir, conf,
    latest_version, exit_code, out, obs, launcher_writes, prev, first_dest,
    text, parsed, anchors, found>>

fsVars == <<tilde_is_home, dirs, files>>
parseVars == <<text, parsed, anchors, found>>

\* The node the operating system reaches for a path
Resolve(p) == IF p.base = "~" /\ tilde_is_home THEN ExpandHome(p) ELSE p

\* fs::metadata(path).is_ok()
MetadataOk(p) ==
  LET n == Resolve(p) IN
  IF n \in LauncherNodes THEN files[n] # NoFile ELSE n \in dirs

\* DotDesktop::exists
DotDesktopExists == MetadataOk(DOT_DESKTOP_PATH)

\* Config
Config(dest_dir, version) == [version |-> version, dest_dir |-> dest_dir]

\* Config::load: None when the file cannot be opened or is not the JSON
\* of a Config
ConfigLoad ==
  IF config_file.kind = "record"
  THEN Some(Config(config_file.dest_dir, config_file.version))
  ELSE None


\* ------------------------------------------------------------------- req
\* The discoverer with unwrap_or_default in place of the empty result
get_latest_or_default(resp) ==
  IF ~resp.transport_ok THEN [ok |-> TRUE, val |-> Some(VersionDefault)]
  ELSE
    LET texts == SelectSeq(resp.anchors, LAMBDA t : from_str(t).some)
        versions == [i \in 1..Len(texts) |-> from_str(texts[i]).val]
        sorted == SortSeq(versions, VersionLt)
    IN [ok |-> TRUE,
        val |-> IF Len(sorted) = 0 THEN Some(VersionDefault)
                ELSE Some(sorted[Len(sorted)])]

\* The discoverer with pop_front in place of pop_back
get_latest_pop_front(resp) ==
  IF ~resp.transport_ok THEN [ok |-> FALSE, val |-> None]
  ELSE
    LET texts == SelectSeq(resp.anchors, LAMBDA t : from_str(t).some)
        versions == [i \in 1..Len(texts) |-> from_str(texts[i]).val]
        sorted == SortSeq(versions, VersionLt)
    IN [ok |-> TRUE,
        val |-> IF Len(sorted) = 0 THEN None ELSE Some(sorted[1])]

\* Client::get_latest_release_number: Err on a transport error of
\* get_content (send or text); else the texts that parse, sorted, and the
\* last of them popped. The response's status is not looked at.
get_latest_release_number(resp) ==
  IF ~resp.transport_ok THEN [ok |-> FALSE, val |-> None]
  ELSE
    LET texts == SelectSeq(resp.anchors, LAMBDA t : from_str(t).some)
        versions == [i \in 1..Len(texts) |-> from_str(texts[i]).val]
        sorted == SortSeq(versions, VersionLt)
    IN [ok |-> TRUE,
        val |-> IF Len(sorted) = 0 THEN None ELSE Some(sorted[Len(sorted)])]

\* BzDecoder over the accumulated bytes, read by tar: a stream head
\* followed by its payload, and nothing else
Decodes(writer) == writer = <<"bz", "tar">>

\* Client::download_version: send, the chunk loop into writer, unpack.
\* unpacked tells what reached dest_dir. The response's status is not
\* looked at.
download_version(resp, partial) ==
  IF ~resp.send_ok THEN [ok |-> FALSE, unpacked |-> "none"]
  ELSE IF ~resp.stream_ok THEN [ok |-> FALSE, unpacked |-> "none"]
  ELSE
    LET writer == resp.chunks IN
    IF Decodes(writer) /\ resp.disk_ok THEN [ok |-> TRUE, unpacked |-> "full"]
    ELSE [ok |-> FALSE,
          unpacked |-> IF partial /\ Len(writer) > 0 /\ writer[1] = "bz"
                       THEN "partial" ELSE "none"]

\* ------------------------------------------------------------------ conf
\* Config::save under a file-system outcome: File::create fails (the file
\* is untouched); create truncates and to_writer reports a write error;
\* create truncates, the JSON stays in the BufWriter and its flush on drop
\* fails, which drop ignores; or the record is written.
SaveOutcomes == {"create_err", "write_err", "lost", "written"}

ConfigSave(c, outcome) ==
  CASE outcome = "create_err" -> [ok |-> FALSE, file |-> config_file]
    [] outcome = "write_err" -> [ok |-> FALSE, file |-> Corrupt]
    [] outcome = "lost" -> [ok |-> TRUE, file |-> Corrupt]
    [] outcome = "written" -> [ok |-> TRUE, file |-> Stored(c)]

\* ------------------------------------------------------------------ main
\* The command line's dest_dir taken also when a record was loaded
InitialConfigFromArgs(loaded, dest_dir) ==
  Config(dest_dir, IF loaded.some THEN loaded.val.version ELSE VersionDefault)

\* main.rs 42-46: the loaded record, or a new one from the command line
InitialConfig(loaded, dest_dir) ==
  IF loaded.some THEN loaded.val ELSE Config(dest_dir, VersionDefault)

\* The gate with < in place of <=
UpToDateStrict(latest, current) == VersionLt(latest, current)

\* main.rs 63: latest_version <= conf.version
UpToDate(latest, current) == VersionLe(latest, current)

\* The match with an Err arm that prints and falls through
DownloadSucceededAnyway(status) == TRUE

\* main.rs 76-82: the match on download_version's result
DownloadSucceeded(status) == status.ok

\* The assignment of the new version left out
WithVersionKept(c, latest) == c

\* main.rs 84: conf.version = latest_version
WithVersion(c, latest) == [c EXCEPT !.version = latest]

NoDownload ==
  [attempted |-> FALSE, status |-> 0, env_ok |-> FALSE, ok |-> FALSE,
   unpacked |-> "none", dest |-> ""]

NoIndex == [asked |-> FALSE, transport_ok |-> FALSE, status |-> 0, parses |-> FALSE]

FreshObs(disk, fs) ==
  [disk_at_start |-> disk, files_at_start |-> fs, launcher |-> "none",
   loaded |-> FALSE, index |-> NoIndex, dl |-> NoDownload, save |-> "none"]

NoPrev == [installed |-> FALSE, latest |-> VersionDefault, dest |-> ""]

NoConf == Config("", VersionDefault)

Exit(code) == pc' = "exited" /\ exit_code' = code

\* ------------------------------------------------------------------ Init
DirStates ==
  {D \in SUBSET DirNodes :
     /\ \A n \in D : n.rel = "applications" => ParentDir(n) \in D
     /\ tilde_is_home => \A n \in D : n.base = "home"}

InitRun ==
  /\ tilde_is_home \in BOOLEAN
  /\ dirs \in DirStates
  /\ files = [n \in LauncherNodes |-> NoFile]
  /\ config_file = Absent
  /\ pc = "idle"
  /\ runs = 0
  /\ args_dest_dir = ""
  /\ conf = NoConf
  /\ latest_version = VersionDefault
  /\ exit_code = -1
  /\ out = {}
  /\ obs = FreshObs(Absent, [n \in LauncherNodes |-> NoFile])
  /\ launcher_writes = 0
  /\ prev = NoPrev
  /\ first_dest = ""

NotFound == [ok |-> FALSE, val |-> None]

Init ==
  /\ InitRun
  /\ text = <<>>
  /\ parsed = None
  /\ anchors = <<>>
  /\ found = NotFound

\* --------------------------------------------------------------- actions
\* The binary is started: Args::from_args (main.rs 37)
Start ==
  /\ pc \in {"idle", "exited"}
  /\ runs < MaxRuns
  /\ runs' = runs + 1
  /\ \E d \in Dests : args_dest_dir' = d
  /\ pc' = "launcher"
  /\ conf' = NoConf
  /\ latest_version' = VersionDefault
  /\ exit_code' = -1
  /\ out' = {}
  /\ prev' = IF /\ pc = "exited"
                /\ obs.disk_at_start = Absent
                /\ obs.dl.ok
                /\ obs.save = "written"
             THEN [installed |-> TRUE, latest |-> latest_version, dest |-> obs.dl.dest]
             ELSE NoPrev
  /\ obs' = FreshObs(config_file, files)
  /\ UNCHANGED <<fsVars, config_file, launcher_writes, first_dest, parseVars>>

\* main.rs 39-41 with DotDesktop::create (104-124): nothing when the
\* launcher is found at DOT_DESKTOP_PATH; else create_dir of the missing
\* SHARE_APPLICATIONS_DIR, whose failure panics (expect), and the write of
\* the launcher under $HOME, whose failure is printed.
EnsureLauncher ==
  /\ pc = "launcher"
  /\ IF DotDesktopExists
     THEN /\ pc' = "load"
          /\ obs' = [obs EXCEPT !.launcher = "present"]
          /\ UNCHANGED <<dirs, files, exit_code, out, launcher_writes>>
     ELSE \E mkdir_ok \in BOOLEAN, write_ok \in BOOLEAN :
       LET dir == Resolve(SHARE_APPLICATIONS_DIR)
           missing == ~MetadataOk(SHARE_APPLICATIONS_DIR)
           made == ParentDir(dir) \in dirs /\ mkdir_ok
           target == ExpandHome(DOT_DESKTOP_PATH)
       IN
       IF missing /\ ~made
       THEN /\ Exit(EXIT_PANIC)
            /\ obs' = [obs EXCEPT !.launcher = "panicked"]
            /\ UNCHANGED <<dirs, files, out, launcher_writes>>
       ELSE
         /\ dirs' = IF missing THEN dirs \cup {dir} ELSE dirs
         /\ IF ParentDir(target) \in dirs' /\ write_ok
            THEN /\ files' = [files EXCEPT ![target] = args_dest_dir]
                 /\ launcher_writes' = launcher_writes + 1
                 /\ obs' = [obs EXCEPT !.launcher = "written"]
                 /\ out' = out
            ELSE /\ out' = out \cup {"Failed to write .desktop"}
                 /\ obs' = [obs EXCEPT !.launcher = "write_failed"]
                 /\ UNCHANGED <<files, launcher_writes>>
         /\ pc' = "load"
         /\ exit_code' = exit_code
  /\ UNCHANGED <<tilde_is_home, config_file, runs, args_dest_dir, conf,
                 latest_version, prev, first_dest, parseVars>>

\* main.rs 42-46
LoadConfig ==
  /\ pc = "load"
  /\ conf' = InitialConfig(ConfigLoad, args_dest_dir)
  /\ obs' = [obs EXCEPT !.loaded = ConfigLoad.some]
  /\ pc' = "discover"
  /\ UNCHANGED <<fsVars, config_file, runs, args_dest_dir, latest_version,
                 exit_code, out, launcher_writes, prev, first_dest, parseVars>>

\* main.rs 48-61
Discover ==
  /\ pc = "discover"
  /\ \E resp \in IndexResponses :
       LET r == get_latest_release_number(resp) IN
       /\ obs' = [obs EXCEPT !.index =
                    [asked |-> TRUE, transport_ok |-> resp.transport_ok,
                     status |-> resp.status,
                     parses |-> \E i \in 1..Len(resp.anchors) :
                                   from_str(resp.anchors[i]).some]]
       /\ IF ~r.ok
          THEN /\ out' = out \cup {"Could not access thunderbird website"}
               /\ Exit(EXIT_FAILURE)
               /\ UNCHANGED latest_version
          ELSE IF ~r.val.some
          THEN /\ out' = out \cup {"Could not parse version numbers"}
               /\ Exit(EXIT_FAILURE)
               /\ UNCHANGED latest_version
          ELSE /\ latest_version' = r.val.val
               /\ pc' = "gate"
               /\ UNCHANGED <<out, exit_code>>
  /\ UNCHANGED <<fsVars, config_file, runs, args_dest_dir, conf,
                 launcher_writes, prev, first_dest, parseVars>>

\* main.rs 63-70
Gate ==
  /\ pc = "gate"
  /\ IF UpToDate(latest_version, conf.version)
     THEN /\ out' = out \cup {"Latest release is and we already have"}
          /\ Exit(EXIT_OK)
     ELSE /\ out' = out \cup {"Downloading version"}
          /\ pc' = "download"
          /\ UNCHANGED exit_code
  /\ UNCHANGED <<fsVars, config_file, runs, args_dest_dir, conf, latest_version,
                 obs, launcher_writes, prev, first_dest, parseVars>>

\* main.rs 72-82
Download ==
  /\ pc = "download"
  /\ \E resp \in ArchiveResponses, partial \in BOOLEAN :
       LET status == download_version(resp, partial) IN
       /\ obs' = [obs EXCEPT !.dl =
                    [attempted |-> TRUE, status |-> resp.status,
                     env_ok |-> /\ resp.send_ok /\ resp.stream_ok
                                /\ Decodes(resp.chunks) /\ resp.disk_ok,
                     ok |-> status.ok, unpacked |-> status.unpacked,
                     dest |-> conf.dest_dir]]
       /\ IF DownloadSucceeded(status)
          THEN /\ out' = out \cup {"Successfully updated thunderbird"}
               /\ pc' = "save"
               /\ UNCHANGED exit_code
          ELSE /\ out' = out \cup {"Encountered the following error"}
               /\ Exit(EXIT_FAILURE)
  /\ UNCHANGED <<fsVars, config_file, runs, args_dest_dir, conf, latest_version,
                 launcher_writes, prev, first_dest, parseVars>>

\* main.rs 84-88: set the version, save, and return from main
Save ==
  /\ pc = "save"
  /\ conf' = WithVersion(conf, latest_version)
  /\ \E outcome \in SaveOutcomes :
       LET r == ConfigSave(conf', outcome) IN
       /\ config_file' = r.file
       /\ first_dest' = IF first_dest = "" /\ r.file.kind = "record"
                        THEN r.file.dest_dir ELSE first_dest
       /\ obs' = [obs EXCEPT !.save = outcome]
       /\ out' = IF r.ok THEN out ELSE out \cup {"Failed to save config/state"}
  /\ Exit(EXIT_OK)
  /\ UNCHANGED <<fsVars, runs, args_dest_dir, latest_version,
                 launcher_writes, prev, parseVars>>

\* ------------------------------------------- Version::from_str on its own
ParseAlphabet == {"0", "1", "9", ".", "-", "+", "x"}

\* Texts longer than MaxLen that the parser is asked about
NamedTexts ==
  { <<"1", ".", "0", ".", "0", ".", "0">>,
    <<"-", "1", ".", "0", ".", "0">>,
    <<"+", "1", ".", "0", ".", "0">>,
    <<"0", "0", "7", ".", "0", "1", ".", "2">>,
    <<"2", "1", "4", "7", "4", "8", "3", "6", "4", "7", ".", "0", ".", "0">>,
    <<"2", "1", "4", "7", "4", "8", "3", "6", "4", "8", ".", "0", ".", "0">>,
    <<"-", "2", "1", "4", "7", "4", "8", "3", "6", "4", "8", ".", "0", ".", "0">>,
    <<"-", "2", "1", "4", "7", "4", "8", "3", "6", "4", "9", ".", "0", ".", "0">> }

Texts == SeqsUpTo(ParseAlphabet, MaxLen) \cup NamedTexts

InitParse ==
  /\ InitRun
  /\ ~tilde_is_home
  /\ dirs = {}
  /\ text \in Texts
  /\ parsed = None
  /\ anchors = <<>>
  /\ found = NotFound

\* Version::from_str is called on the text
Parse ==
  /\ pc = "idle"
  /\ pc' = "parsed"
  /\ parsed' = from_str(text)
  /\ UNCHANGED <<fsVars, config_file, runs, args_dest_dir, conf, latest_version,
                 exit_code, out, obs, launcher_writes, prev, first_dest, text,
                 anchors, found>>

NextParse == Parse

SpecParse == InitParse /\ [][NextParse]_vars

\* ------------------------------- get_latest_release_number on its own
\* Anchor texts of a page: versions that differ in each field, one whose
\* minor is greater as a number and smaller as a text, a signed one, and
\* texts that are no version
PageTexts ==
  { <<"1", ".", "0", ".", "0">>,
    <<"1", ".", "2", ".", "0">>,
    <<"1", ".", "2", ".", "3">>,
    <<"1", ".", "1", "0", ".", "0">>,
    <<"2", ".", "0", ".", "0">>,
    <<"-", "1", ".", "0", ".", "0">>,
    <<"j", "u", "n", "k">>,
    <<"1", ".", "0">> }

\* A page longer than MaxList
NamedPages ==
  { << <<"1", ".", "0", ".", "0">>, <<"j", "u", "n", "k">>,
       <<"1", ".", "2", ".", "3">>, <<"1", ".", "2", ".", "0">> >> }

Pages == SeqsUpTo(PageTexts, MaxList) \cup NamedPages

InitDiscover ==
  /\ InitRun
  /\ ~tilde_is_home
  /\ dirs = {}
  /\ text = <<>>
  /\ parsed = None
  /\ anchors \in Pages
  /\ found = NotFound

\* get_latest_release_number is called and get_content answers with the page
FindLatest ==
  /\ pc = "idle"
  /\ pc' = "found"
  /\ \E status \in {200, 404} :
       found' = get_latest_release_number(
                  [transport_ok |-> TRUE, status |-> status, anchors |-> anchors])
  /\ UNCHANGED <<fsVars, config_file, runs, args_dest_dir, conf, latest_version,
                 exit_code, out, obs, launcher_writes, prev, first_dest, text,
                 parsed, anchors>>

NextDiscover == FindLatest

SpecDiscover == InitDiscover /\ [][NextDiscover]_vars

Next ==
  \/ Start
  \/ EnsureLauncher
  \/ LoadConfig
  \/ Discover
  \/ Gate
  \/ Download
  \/ Save

Spec == Init /\ [][Next]_vars


\* ----------------------------------------------------------------- claims
\* The version the run started from: the persisted one, or 0.0.0
StartVersion ==
  IF obs.disk_at_start.kind = "record" THEN obs.disk_at_start.version
  ELSE VersionDefault

\* The run has discovered a latest version (held in latest_version)
Discovered == obs.index.asked /\ obs.index.transport_ok /\ obs.index.parses

\* main's conf has been made (main.rs 42-46 is behind the run)
PastLoad ==
  \/ pc \in {"discover", "gate", "download", "save"}
  \/ pc = "exited" /\ obs.index.asked

ConfigUntouched == config_file = obs.disk_at_start /\ obs.save = "none"

\* C1: the ConfigRecord is written only in a run whose download_version
\* returned success; when the send, a chunk, the decoding or the unpacking
\* fails, the run exits with a non-zero status and the ConfigRecord on
\* disk is what it was when the run started.
C1_WriteOnlyAfterDownload ==
  /\ obs.save # "none" => obs.dl.ok /\ obs.dl.env_ok
  /\ config_file # obs.disk_at_start => obs.save # "none"
  /\ obs.dl.attempted /\ ~obs.dl.env_ok =>
       /\ pc = "exited"
       /\ exit_code = EXIT_FAILURE
       /\ ConfigUntouched

\* A run that found a record, whose extraction failed midway
C1_Witness ==
  /\ pc = "exited"
  /\ obs.dl.attempted
  /\ obs.dl.unpacked = "partial"
  /\ obs.disk_at_start.kind = "record"
  /\ exit_code = EXIT_FAILURE

\* C2: a run that discovers a latest version not greater than the version
\* it started from attempts no archive download, extracts nothing, writes
\* no ConfigRecord and exits with status 0.
C2_UpgradeGate ==
  Discovered /\ pc # "gate" /\ VersionLe(latest_version, StartVersion) =>
    /\ pc = "exited"
    /\ exit_code = EXIT_OK
    /\ ~obs.dl.attempted
    /\ obs.dl.unpacked = "none"
    /\ ConfigUntouched

\* A run past the gate with a persisted version equal to the latest
C2_Witness ==
  /\ pc = "exited"
  /\ Discovered
  /\ obs.disk_at_start.kind = "record"
  /\ latest_version = obs.disk_at_start.version
  /\ exit_code = EXIT_OK

\* C5: when the release index cannot be fetched, or no selected text
\* parses, the run prints a diagnostic, exits with a non-zero status,
\* attempts no archive download and leaves the ConfigRecord as it was.
C5_DiscoveryFailure ==
  obs.index.asked /\ (~obs.index.transport_ok \/ ~obs.index.parses) =>
    /\ pc = "exited"
    /\ exit_code = EXIT_FAILURE
    /\ out \cap {"Could not access thunderbird website",
                 "Could not parse version numbers"} # {}
    /\ ~obs.dl.attempted
    /\ ConfigUntouched

\* A run that found a record and a page without any version
C5_Witness ==
  /\ pc = "exited"
  /\ obs.index.asked
  /\ obs.index.transport_ok
  /\ ~obs.index.parses
  /\ obs.disk_at_start.kind = "record"
  /\ "Could not parse version numbers" \in out


\* A run that started without a ConfigRecord has downloaded and unpacked
\* the latest version and has ended
FreshInstallDone ==
  /\ pc = "exited"
  /\ obs.disk_at_start = Absent
  /\ obs.dl.ok
  /\ VersionLt(VersionDefault, latest_version)

\* The run follows a fresh install whose record was written and has
\* discovered the same latest version; it is past the gate
FollowsInstall ==
  /\ prev.installed
  /\ Discovered
  /\ latest_version = prev.latest
  /\ pc # "gate"

\* C3 as stated: after a run that starts with no ConfigRecord, discovers a
\* latest version above 0.0.0 and downloads and unpacks it, the
\* ConfigRecord on disk holds latest and the destination of the extraction.
C3_AsStated ==
  FreshInstallDone => config_file = Stored(Config(obs.dl.dest, latest_version))

\* C3 amended: the same when, in addition, Config::save has written the
\* record; and a following run that discovers the same latest version
\* takes the up-to-date path.
C3_StateAdvancement ==
  /\ FreshInstallDone /\ obs.save = "written" =>
       /\ config_file = Stored(Config(obs.dl.dest, latest_version))
       /\ obs.dl.dest = args_dest_dir
  /\ FollowsInstall =>
       /\ pc = "exited"
       /\ exit_code = EXIT_OK
       /\ "Latest release is and we already have" \in out
       /\ ~obs.dl.attempted
       /\ config_file = Stored(Config(prev.dest, prev.latest))

\* The run after a fresh install that was saved, seeing the same latest
C3_Witness ==
  /\ FollowsInstall
  /\ pc = "exited"
  /\ args_dest_dir # prev.dest

\* C4 as stated: once a record has been written, every later run extracts
\* into its dest_dir and keeps it in the record; the command line's
\* dest_dir is the destination only when the state file is absent.
C4_AsStated ==
  /\ first_dest # "" /\ obs.disk_at_start # Absent /\ obs.dl.attempted =>
       obs.dl.dest = first_dest
  /\ first_dest # "" /\ config_file.kind = "record" =>
       config_file.dest_dir = first_dest
  /\ PastLoad /\ ~obs.loaded => obs.disk_at_start = Absent

\* C4 amended: a run that finds a record Config::load can read extracts
\* into that record's dest_dir, whatever --dest-dir it is given, and
\* writes no record with another dest_dir; the command line's dest_dir is
\* the destination when Config::load returns nothing, the file being
\* absent or not the JSON of a Config.
C4_DestinationPrecedence ==
  /\ obs.disk_at_start.kind = "record"
       /\ PastLoad =>
         /\ conf.dest_dir = obs.disk_at_start.dest_dir
         /\ obs.dl.attempted => obs.dl.dest = obs.disk_at_start.dest_dir
         /\ config_file.kind = "record" =>
              config_file.dest_dir = obs.disk_at_start.dest_dir
  /\ obs.disk_at_start.kind # "record"
       /\ PastLoad =>
         /\ conf.dest_dir = args_dest_dir
         /\ obs.dl.attempted => obs.dl.dest = args_dest_dir

\* A run given another --dest-dir than the record's has upgraded and saved
C4_Witness ==
  /\ pc = "exited"
  /\ obs.disk_at_start.kind = "record"
  /\ args_dest_dir # obs.disk_at_start.dest_dir
  /\ obs.dl.ok
  /\ obs.save = "written"

\* C6: when the GET of the index or of the archive is answered with a
\* non-success status, the run exits with a non-zero status, no version
\* is taken from the body, nothing is unpacked and the ConfigRecord is
\* left as it was.
C6_NonSuccessStatusIsFatal ==
  /\ obs.index.asked /\ obs.index.transport_ok /\ obs.index.status # 200 =>
       /\ pc = "exited"
       /\ exit_code # EXIT_OK
       /\ latest_version = VersionDefault
       /\ ~obs.dl.attempted
       /\ ConfigUntouched
  /\ obs.dl.attempted /\ obs.dl.status # 200 =>
       /\ pc = "exited"
       /\ exit_code # EXIT_OK
       /\ obs.dl.unpacked = "none"
       /\ ConfigUntouched

\* C7: no run ends inside the launcher step; every run that ends has
\* gone on to load the ConfigRecord and to ask for the release index.
C7_LauncherFailureNonFatal ==
  pc = "exited" => obs.launcher # "panicked" /\ obs.index.asked

\* C8: the launcher under $HOME is written at most once over all runs,
\* and a run that starts with it present leaves its contents as they were.
C8_LauncherWrittenOnce ==
  /\ launcher_writes <= 1
  /\ pc # "idle" /\ obs.files_at_start[ExpandHome(DOT_DESKTOP_PATH)] # NoFile =>
       files[ExpandHome(DOT_DESKTOP_PATH)] =
         obs.files_at_start[ExpandHome(DOT_DESKTOP_PATH)]

\* C9: when the download and the extraction succeed and the writing of
\* the ConfigRecord fails, the run prints the success line and the
\* save-failure diagnostic and ends with status 0.
C9_SaveFailureRecovered ==
  pc = "exited" /\ obs.dl.ok /\ obs.save \in {"create_err", "write_err", "lost"} =>
    /\ "Successfully updated thunderbird" \in out
    /\ "Failed to save config/state" \in out
    /\ exit_code = EXIT_OK


\* A field that is a non-negative decimal integer: one digit or more,
\* nothing else
IsDecimalField(f) == Len(f) > 0 /\ \A i \in 1..Len(f) : f[i] \in Digits

\* The text splits on '.' into exactly three such fields
IsVersionText(s) ==
  LET parts == Split(s) IN
  Len(parts) = 3 /\ \A i \in 1..3 : IsDecimalField(parts[i])

\* C10: from_str returns a Version exactly when the text is three
\* dot-separated non-negative decimal integers, and is empty for every
\* other text, signed fields included.
C10_ParseExactlyVersionTexts ==
  pc = "parsed" => (parsed.some <=> IsVersionText(text))


\* The versions of the texts of the page that parse
PageVersions ==
  {from_str(anchors[i]).val : i \in {j \in 1..Len(anchors) : from_str(anchors[j]).some}}

\* (major, minor, patch) order, written out
LexLe(a, b) ==
  IF a.major # b.major THEN a.major < b.major
  ELSE IF a.minor # b.minor THEN a.minor < b.minor
  ELSE a.patch <= b.patch

\* C11: get_latest_release_number returns Ok; its value is empty exactly
\* when no selected text parses, and else it is the version of one of the
\* texts that parse and no other of them is greater in (major, minor,
\* patch) order, whatever unparseable texts and duplicates the page holds.
C11_DiscovererMaximum ==
  pc = "found" =>
    /\ found.ok
    /\ found.val.some <=> PageVersions # {}
    /\ found.val.some =>
         /\ found.val.val \in PageVersions
         /\ \A v \in PageVersions : LexLe(v, found.val.val)

\* A page with a text that is no version and a version twice, whose
\* greatest version is not its last one
C11_Witness ==
  /\ pc = "found"
  /\ found.val.some
  /\ \E i \in 1..Len(anchors) : ~from_str(anchors[i]).some
  /\ \E i, j \in 1..Len(anchors) : i # j /\ anchors[i] = anchors[j]
  /\ from_str(anchors[Len(anchors)]) # found.val
  /\ found.val.val = Version(1, 10, 0)

====
